---- MODULE Spec2Model ----
(***************************************************************************)
(* Session router, credential store and tool/resource handlers of the     *)
(* em-tools MCP server (src/src/index.js).                                 *)
(*                                                                         *)
(* JavaScript values are modelled as follows.  `undefined` is the string   *)
(* "undefined" (which is also the property key JavaScript derives from     *)
(* it).  A plain object ({}) is a function whose DOMAIN is the set of its  *)
(* own property keys; reading a key goes through OwnOrInherited, which     *)
(* falls back to the members every plain object inherits from              *)
(* Object.prototype.  An optional lookup that may yield an object or       *)
(* undefined is a set holding zero or one element.                         *)
(***************************************************************************)
EXTENDS Integers, Sequences, FiniteSets, TLC

\* ------------------------------------------------------------------ bounds
\* Number of identifiers randomUUID() can hand out in one run.
MaxSessions == 2
\* Number of requests that may be in flight (routed, not yet answered).
MaxPending == 1
\* Number of (session, integration) pairs clients log in to at one time; a
\* login that replaces a bundle is always possible.
MaxBundles == 2
MaxStalled == 1

\* ------------------------------------------------------- JavaScript values
Undefined == "undefined"

\* Truthiness of a header value or of a looked-up table entry.
Truthy(v) == v \notin {Undefined, ""}

\* Keys every object literal inherits from Object.prototype.
ProtoKeys == {"constructor"}

\* What reading such an inherited key yields: a built-in, not a transport.
ProtoMember(k) == "Object.prototype." \o k

\* obj[key] on an object literal: own property, else inherited, else undefined.
OwnOrInherited(obj, key) ==
  IF key \in DOMAIN obj THEN obj[key]
  ELSE IF key \in ProtoKeys THEN ProtoMember(key)
  ELSE Undefined

\* obj[key] = value
SetKey(obj, key, value) ==
  [k \in DOMAIN obj \cup {key} |-> IF k = key THEN value ELSE obj[k]]

\* delete obj[key]
DeleteKey(obj, key) == [k \in DOMAIN obj \ {key} |-> obj[k]]

EmptyObject == [k \in {} |-> Undefined]

\* ------------------------------------------------------------- identifiers
UuidOf(n) == "uuid-" \o ToString(n)
UUIDs == {UuidOf(n) : n \in 1..MaxSessions}

TransportOf(n) == "transport-" \o ToString(n)
TransportHandles == {TransportOf(n) : n \in 1..MaxSessions}

\* Values a client can put in the mcp-session-id header: absent, any UUID
\* (live, closed, or never issued), a name of Object.prototype.
HeaderValues == {Undefined} \cup UUIDs \cup ProtoKeys

\* --------------------------------------------------------------- catalog
Integrations == {"jira", "calendar", "notion"}

LoginTools == {"get_login_jira", "get_login_calendar", "get_login_notion"}
ResourceNames == {"jira-tasks", "calendar-events", "notion-documents"}
MutatingTools == {"create-jira-task", "update-jira-task",
                  "create-calendar-meeting", "create-notion-document"}

IntegrationOf(name) ==
  CASE name \in {"get_login_jira", "jira-tasks", "create-jira-task",
                 "update-jira-task"} -> "jira"
    [] name \in {"get_login_calendar", "calendar-events",
                 "create-calendar-meeting"} -> "calendar"
    [] name \in {"get_login_notion", "notion-documents",
                 "create-notion-document"} -> "notion"

\* True of the tools registered with an `inputSchema` entry.  The config of
\* create-jira-task has `parameters`/`returns` instead, so the server holds
\* no input schema for it.
HasInputSchema(name) == name # "create-jira-task"

\* ----------------------------------------------------------- login inputs
JiraInputs ==
  {[username |-> u, apiToken |-> "tok", host |-> "example.atlassian.net"] :
     u \in {"alice", "bob"}}

\* refreshToken is optional in the input schema: absent is undefined.
CalendarInputs ==
  {[clientId |-> "cid", clientSecret |-> "sec", redirectUri |-> "uri",
    refreshToken |-> r] : r \in {Undefined, "rt-1"}}

NotionInputs == {[apiKey |-> k] : k \in {"key-1", "key-2"}}

LoginInputs(integration) ==
  CASE integration = "jira" -> JiraInputs
    [] integration = "calendar" -> CalendarInputs
    [] integration = "notion" -> NotionInputs

\* Buffer.from(text).toString('base64'): an injective encoding of the text.
Base64(text) == "base64(" \o text \o ")"

\* x || ''
OrEmpty(x) == IF Truthy(x) THEN x ELSE ""

JiraSessionToken(in) ==
  Base64(in.username \o ":" \o in.apiToken \o ":" \o in.host)

CalendarSessionToken(in) ==
  Base64(in.clientId \o ":" \o in.clientSecret \o ":" \o in.redirectUri
         \o ":" \o OrEmpty(in.refreshToken))

NotionSessionToken(in) == Base64(in.apiKey)

SessionToken(integration, in) ==
  CASE integration = "jira" -> JiraSessionToken(in)
    [] integration = "calendar" -> CalendarSessionToken(in)
    [] integration = "notion" -> NotionSessionToken(in)

\* The object literal a login handler stores for its integration.
JiraBundle(in) ==
  [username |-> in.username, apiToken |-> in.apiToken, host |-> in.host,
   session |-> JiraSessionToken(in)]

CalendarBundle(in) ==
  [clientId |-> in.clientId, clientSecret |-> in.clientSecret,
   redirectUri |-> in.redirectUri, refreshToken |-> in.refreshToken,
   session |-> CalendarSessionToken(in)]

NotionBundle(in) == [apiKey |-> in.apiKey, session |-> NotionSessionToken(in)]

NewBundle(integration, in) ==
  CASE integration = "jira" -> JiraBundle(in)
    [] integration = "calendar" -> CalendarBundle(in)
    [] integration = "notion" -> NotionBundle(in)

\* ------------------------------------------------------- handler context
\* The second (tools) or third (resources) argument of a handler.  A tool
\* registered without an input schema is called with the request context as
\* its only argument, so its `context` parameter is undefined.
NoContext == [defined |-> FALSE, sessionId |-> Undefined]

HandlerContext(name, sid) ==
  IF name \in ResourceNames \/ HasInputSchema(name)
  THEN [defined |-> TRUE, sessionId |-> sid]
  ELSE NoContext

\* Mutant: every handler reads the same key, whatever session it runs on.
ContextSessionIdShared(context) == Undefined

\* context?.sessionId
ContextSessionId(context) ==
  IF context.defined THEN context.sessionId ELSE Undefined

\* ------------------------------------------------------ credential store
\* sessionStore[key] || {}
EntryOrEmpty(store, key) ==
  IF key \in DOMAIN store THEN store[key] ELSE EmptyObject

\* sessionStore[key]?.<integration>: the bundle, or nothing.
CredsLookup(store, key, integration) ==
  IF key \in DOMAIN store /\ integration \in DOMAIN store[key]
  THEN {store[key][integration]}
  ELSE {}

\* Mutant: the login replaces the session's whole entry.
StoreLoginReplaceEntry(store, key, integration, in) ==
  SetKey(store, key, SetKey(EmptyObject, integration, NewBundle(integration, in)))

\* Mutant: the login merges into the old bundle, keeping a field of the old
\* bundle where the new input leaves it undefined.
StoreLoginMerge(store, key, integration, in) ==
  LET new == NewBundle(integration, in)
      old == CredsLookup(store, key, integration)
      merged == IF old = {} THEN new
                ELSE LET o == CHOOSE x \in old : TRUE
                     IN [f \in DOMAIN new |->
                           IF new[f] = Undefined THEN o[f] ELSE new[f]]
  IN SetKey(store, key, SetKey(EntryOrEmpty(store, key), integration, merged))

\* The two statements of a login handler on the store:
\*   sessionStore[k] = sessionStore[k] || {};  sessionStore[k].<i> = {...}
StoreLogin(store, key, integration, in) ==
  SetKey(store, key,
         SetKey(EntryOrEmpty(store, key), integration,
                NewBundle(integration, in)))

\* The object thrown when the lookup finds nothing.
LoginRequiredError(integration) ==
  CASE integration = "jira" ->
         [code |-> -32001,
          message |-> "Please login to Jira first using the get_login_jira tool."]
    [] integration = "calendar" ->
         [code |-> -32002,
          message |-> "Please login to Calendar first using the get_login_calendar tool."]
    [] integration = "notion" ->
         [code |-> -32003,
          message |-> "Please login to Notion first using the get_login_notion tool."]

NoError == [code |-> 0, message |-> ""]

\* The resource and tool handlers behind the login gate.
GatedNames == ResourceNames \cup MutatingTools

\* Mutant: every handler throws the Jira error.
HandlerLoginErrorShared(name) == LoginRequiredError("jira")

\* The object literal each handler throws, as written in that handler.
HandlerLoginError(name) ==
  CASE name = "jira-tasks" ->
         [code |-> -32001,
          message |-> "Please login to Jira first using the get_login_jira tool."]
    [] name = "create-jira-task" ->
         [code |-> -32001,
          message |-> "Please login to Jira first using the get_login_jira tool."]
    [] name = "update-jira-task" ->
         [code |-> -32001,
          message |-> "Please login to Jira first using the get_login_jira tool."]
    [] name = "calendar-events" ->
         [code |-> -32002,
          message |-> "Please login to Calendar first using the get_login_calendar tool."]
    [] name = "create-calendar-meeting" ->
         [code |-> -32002,
          message |-> "Please login to Calendar first using the get_login_calendar tool."]
    [] name = "notion-documents" ->
         [code |-> -32003,
          message |-> "Please login to Notion first using the get_login_notion tool."]
    [] name = "create-notion-document" ->
         [code |-> -32003,
          message |-> "Please login to Notion first using the get_login_notion tool."]

\* new JiraService(creds), new CalendarService(creds), new NotionService(creds):
\* the credentials the new adapter holds.  The constructors are declared
\* without a parameter, so the bundle handed to `new` is dropped and the
\* adapter holds none of it.
ServiceCredentials(integration, creds) == {}

\* Mutant: the two branches of a resource handler are exchanged.
AdapterMethodSwapped(name, id) ==
  CASE name = "jira-tasks" -> IF Truthy(id) THEN "getTasks" ELSE "getTask"
    [] name = "calendar-events" -> IF Truthy(id) THEN "getEvents" ELSE "getEvent"
    [] name = "notion-documents" -> IF Truthy(id) THEN "searchDocs" ELSE "getDoc"
    [] name = "create-jira-task" -> "createTask"
    [] name = "update-jira-task" -> "updateTask"
    [] name = "create-calendar-meeting" -> "createMeeting"
    [] name = "create-notion-document" -> "createDoc"

\* The adapter method a handler awaits once the gate is passed.
AdapterMethod(name, id) ==
  CASE name = "jira-tasks" -> IF Truthy(id) THEN "getTask" ELSE "getTasks"
    [] name = "calendar-events" -> IF Truthy(id) THEN "getEvent" ELSE "getEvents"
    [] name = "notion-documents" -> IF Truthy(id) THEN "getDoc" ELSE "searchDocs"
    [] name = "create-jira-task" -> "createTask"
    [] name = "update-jira-task" -> "updateTask"
    [] name = "create-calendar-meeting" -> "createMeeting"
    [] name = "create-notion-document" -> "createDoc"

\* Mutant: the gate is missing.
GatePassesAlways(creds) == TRUE

\* if (!creds) throw ...
GatePasses(creds) == creds # {}

\* What a non-login handler does up to its first await: look the bundle up,
\* throw when there is none, otherwise construct the adapter from the bundle
\* and issue the adapter call.
HandlerStart(name, id, context, store) ==
  LET integration == IntegrationOf(name)
      creds == CredsLookup(store, ContextSessionId(context), integration)
  IN IF ~GatePasses(creds)
     THEN [creds |-> creds, threw |-> TRUE,
           error |-> HandlerLoginError(name),
           constructed |-> FALSE, service |-> Undefined, ctorArg |-> {},
           credentials |-> {}, method |-> Undefined, arg |-> Undefined]
     ELSE [creds |-> creds, threw |-> FALSE, error |-> NoError,
           constructed |-> TRUE, service |-> integration, ctorArg |-> creds,
           credentials |-> ServiceCredentials(integration, creds),
           method |-> AdapterMethod(name, id),
           arg |-> IF name \in ResourceNames /\ Truthy(id) THEN id
                   ELSE Undefined]

\* ------------------------------------------------------- request bodies
ItemIds == {Undefined, "item-1"}

\* startDateTime and endDateTime of create-calendar-meeting: ISO strings,
\* modelled by the instants they denote.
Instants == 1..2

NoInput == {}

InitializeBody ==
  [method |-> "initialize", name |-> Undefined, input |-> NoInput,
   id |-> Undefined]

PingBody ==
  [method |-> "ping", name |-> Undefined, input |-> NoInput, id |-> Undefined]

LoginBodies ==
  {[method |-> "tools/call", name |-> n, input |-> {in}, id |-> Undefined] :
     n \in LoginTools, in \in UNION {LoginInputs(i) : i \in Integrations}}

\* A meeting that ends after it starts, one that ends when it starts and one
\* that ends before it starts.
MeetingInputs ==
  {[startDateTime |-> p[1], endDateTime |-> p[2]] :
     p \in {<<1, 2>>, <<2, 2>>, <<2, 1>>}}

ToolBodies ==
  {b \in LoginBodies : \A in \in b.input : in \in LoginInputs(IntegrationOf(b.name))}
  \cup {[method |-> "tools/call", name |-> n, input |-> NoInput,
         id |-> Undefined] : n \in MutatingTools \ {"create-calendar-meeting"}}
  \cup {[method |-> "tools/call", name |-> "create-calendar-meeting",
         input |-> {in}, id |-> Undefined] : in \in MeetingInputs}

ResourceBodies ==
  {[method |-> "resources/read", name |-> n, input |-> NoInput, id |-> i] :
     n \in ResourceNames, i \in ItemIds}

Bodies == {InitializeBody, PingBody} \cup ToolBodies \cup ResourceBodies

\* Mutant: any body counts as an initialization request.
IsInitializeRequestAny(body) == TRUE

\* isInitializeRequest(req.body)
IsInitializeRequest(body) == body.method = "initialize"

\* ----------------------------------------------------------- responses
NoBody == [none |-> TRUE]

\* res.status(400).json({jsonrpc, error: {code, message}, id: null})
BadRequestEnvelope ==
  [jsonrpc |-> "2.0",
   error |-> [code |-> -32000,
              message |-> "Bad Request: No valid session ID provided"],
   id |-> "null"]

\* res.status(400).send('Invalid or missing session ID')
InvalidSessionText == [text |-> "Invalid or missing session ID"]

\* ------------------------------------------------------------- adapters
\* The service classes behind the handlers, in the variants the repository
\* holds of each: "rethrow" logs a backend error and throws it on, "typed"
\* maps it to the classes of utils/errors.js, "tolerant" logs it and returns
\* an empty value, "stub" returns canned data and has no backend.
ServiceClasses == {"JiraService", "CalendarService"}
Variants == {"rethrow", "typed", "tolerant", "stub"}

\* process.env as a constructor reads it: whether the integration's
\* credential variables are set, NODE_ENV, and whether a saved Google token
\* file is on disk (.credentials/google-calendar.json).
Environments ==
  [credentials : BOOLEAN, NODE_ENV : {"development", "production"},
   savedToken : BOOLEAN]

\* A thrown value: its class and its statusCode (Jira) or code (Google); 0
\* stands for a value without that property.
Thrown(type, statusCode) == [type |-> type, statusCode |-> statusCode]
NoThrown == Thrown("none", 0)

\* utils/errors.js
CustomError(statusCode) ==
  Thrown("CustomError", IF statusCode = 0 THEN 500 ELSE statusCode)
NotFoundError == Thrown("NotFoundError", 404)
AuthenticationError == Thrown("AuthenticationError", 401)
ValidationError == Thrown("ValidationError", 400)

\* The adapter object: `client` is this.client (Jira) or this.calendar and
\* this.oAuth2Client (Calendar); `token` is oAuth2Client.credentials.access_token.
NoService ==
  [class |-> "none", variant |-> "none", client |-> "unset", token |-> FALSE,
   env |-> [credentials |-> FALSE, NODE_ENV |-> "production",
            savedToken |-> FALSE]]

\* constructor(): the error it throws, or the object it leaves.
Constructor(class, variant, env) ==
  LET made(client, token) ==
        [threw |-> FALSE, error |-> NoThrown,
         service |-> [class |-> class, variant |-> variant, client |-> client,
                      token |-> token, env |-> env]]
      loaded == class = "CalendarService" /\ env.savedToken
  IN CASE variant = "stub" -> made("unset", FALSE)
       [] variant = "rethrow" -> made("client", loaded)
       [] variant = "tolerant" ->
            IF env.credentials THEN made("client", FALSE)
            ELSE made("null", FALSE)
       [] variant = "typed" ->
            IF env.credentials THEN made("client", loaded)
            ELSE IF env.NODE_ENV = "development" THEN made("null", FALSE)
            ELSE [threw |-> TRUE, error |-> AuthenticationError,
                  service |-> [NoService EXCEPT !.env = env]]

\* The methods of a class: the Calendar variants that take a meetingData
\* object name their reads getMeeting/getMeetings.
Methods(class, variant) ==
  IF class = "JiraService"
  THEN {"getTask", "getTasks", "createTask", "updateTask"}
  ELSE IF variant \in {"rethrow", "typed"}
  THEN {"getMeeting", "getMeetings", "createMeeting"}
  ELSE {"getEvent", "getEvents", "createMeeting"}

ListMethods == {"getTasks", "getMeetings", "getEvents"}

\* The arguments of a call: the item key, the fields of updateTask, the
\* start and end of createMeeting.
NoArgs ==
  [id |-> "item-1", summary |-> Undefined, status |-> Undefined,
   start |-> 1, end |-> 2]

StatusInputs == {Undefined, "done", "Closed", "closed", "Blocked"}

ArgsOf(method) ==
  CASE method = "updateTask" ->
         {[NoArgs EXCEPT !.summary = sm, !.status = st] :
            sm \in {Undefined, "new summary"}, st \in StatusInputs}
    [] method = "createMeeting" ->
         {[NoArgs EXCEPT !.start = a, !.end = b] :
            a \in Instants, b \in Instants}
    [] OTHER -> {NoArgs}

\* ------------------------------------------------------ the Jira backend
\* A transition as listTransitions returns it: its id, its name and the
\* name of the status it leads to.
StartProgress == [id |-> "11", name |-> "Start", to |-> "In Progress"]
MarkDone == [id |-> "31", name |-> "Done", to |-> "Closed"]

TransitionLists == {<<>>, <<StartProgress>>, <<StartProgress, MarkDone>>}

\* String.prototype.toLowerCase on the names in use
ToLowerCase(str) ==
  CASE str = "Done" -> "done"
    [] str = "Closed" -> "closed"
    [] str = "Blocked" -> "blocked"
    [] str = "Start" -> "start"
    [] str = "In Progress" -> "in progress"
    [] OTHER -> str

\* transitions.find(t => t.name.toLowerCase() === status.toLowerCase())
MatchByName(t, status) == ToLowerCase(t.name) = ToLowerCase(status)

\* transitions.find(t => t.to.name === status)
MatchByTarget(t, status) == t.to = status

Matches(variant, t, status) ==
  IF variant = "tolerant" THEN MatchByTarget(t, status)
  ELSE MatchByName(t, status)

\* Mutant: the first transition is taken, whatever status was asked for.
FindFirst(variant, list, status) == IF list = <<>> THEN {} ELSE {list[1]}

\* Array.prototype.find: the first element that matches, or nothing.
Find(variant, list, status) ==
  LET hits == {i \in 1..Len(list) : Matches(variant, list[i], status)}
  IN IF hits = {} THEN {}
     ELSE {list[CHOOSE i \in hits : \A j \in hits : i <= j]}

\* The item the Jira backend holds, and the transitions it offers for it.
Backends ==
  [summary : {"old summary"}, status : {"To Do"},
   transitions : TransitionLists]

\* ------------------------------------------------------- adapter methods
\* The backend calls a method issues when none of them fails, in order.
\* Mutant: updateTask moves the item to its new status before it edits the
\* fields.
JiraPlanStatusFirst(variant, method, args, transitions) ==
  LET edit == IF variant = "typed" /\ ~Truthy(args.summary) THEN <<>>
              ELSE <<"updateIssue">>
      move == IF ~Truthy(args.status) THEN <<>>
              ELSE IF Find(variant, transitions, args.status) = {}
              THEN <<"listTransitions">>
              ELSE <<"listTransitions", "transitionIssue">>
      read == IF variant = "tolerant" THEN <<>> ELSE <<"findIssue">>
  IN CASE method = "getTask" -> <<"findIssue">>
       [] method = "getTasks" -> <<"searchJira">>
       [] method = "createTask" -> <<"addNewIssue">> \o read
       [] method = "updateTask" -> move \o edit \o read

JiraPlan(variant, method, args, transitions) ==
  LET edit == IF variant = "typed" /\ ~Truthy(args.summary) THEN <<>>
              ELSE <<"updateIssue">>
      move == IF ~Truthy(args.status) THEN <<>>
              ELSE IF Find(variant, transitions, args.status) = {}
              THEN <<"listTransitions">>
              ELSE <<"listTransitions", "transitionIssue">>
      read == IF variant = "tolerant" THEN <<>> ELSE <<"findIssue">>
  IN CASE method = "getTask" -> <<"findIssue">>
       [] method = "getTasks" -> <<"searchJira">>
       [] method = "createTask" -> <<"addNewIssue">> \o read
       [] method = "updateTask" -> edit \o move \o read

CalendarPlan(method) ==
  CASE method \in {"getMeeting", "getEvent"} -> <<"events.get">>
    [] method \in {"getMeetings", "getEvents"} -> <<"events.list">>
    [] method = "createMeeting" -> <<"events.insert">>

Plan(svc, method, args, transitions) ==
  IF svc.variant = "stub" THEN <<>>
  ELSE IF svc.class = "JiraService"
  THEN JiraPlan(svc.variant, method, args, transitions)
  ELSE CalendarPlan(method)

\* What the backend does to a call: nothing, or fail one backend call with
\* a status (0: an error without a status, such as a network failure).
NoFault == [at |-> "none", statusCode |-> 0]
StatusCodes == {0, 400, 401, 404, 500}
Faults(plan) ==
  {NoFault} \cup
  {[at |-> plan[i], statusCode |-> c] : i \in 1..Len(plan), c \in StatusCodes}

\* The position in the plan of the call that fails; 0 when none does.
FailsAt(plan, fault) ==
  LET hits == {i \in 1..Len(plan) : plan[i] = fault.at}
  IN IF hits = {} THEN 0 ELSE CHOOSE i \in hits : \A j \in hits : i <= j

\* What a method throws inside its try block before it issues a backend
\* call: a TypeError for reading a property of null, the Error of
\* _checkAuth, the ZodError of MeetingSchema.parse.
PreError(svc, method, args) ==
  IF svc.variant \in {"stub", "tolerant"} THEN NoThrown
  ELSE IF svc.client = "null" THEN Thrown("TypeError", 0)
  ELSE IF svc.class = "CalendarService" /\ ~svc.token THEN Thrown("Error", 0)
  ELSE IF /\ svc.class = "CalendarService" /\ svc.variant = "typed"
          /\ method = "createMeeting" /\ ~(args.end > args.start)
  THEN Thrown("ZodError", 0)
  ELSE NoThrown

\* The catch block of a typed Jira method, by error.statusCode.
JiraTypedCatch(method, e) ==
  IF e.type = "ZodError" THEN ValidationError
  ELSE IF e.statusCode = 401 THEN AuthenticationError
  ELSE IF e.statusCode = 404 /\ method # "createTask" THEN NotFoundError
  ELSE IF e.statusCode = 400 /\ method \in {"createTask", "updateTask"}
  THEN ValidationError
  ELSE CustomError(e.statusCode)

\* The catch block of a typed Calendar method, by error.code.  getMeetings
\* and createMeeting first evaluate `error instanceof ZodError`; the module
\* imports only `z`, so the name ZodError is unbound and evaluating it
\* throws a ReferenceError out of the catch block.
CalendarTypedCatch(method, e) ==
  IF method \in {"getMeetings", "createMeeting"}
  THEN Thrown("ReferenceError", 0)
  ELSE IF e.statusCode = 401 THEN AuthenticationError
  ELSE IF e.statusCode = 404 THEN NotFoundError
  ELSE CustomError(0)

\* What a typed method throws for an error raised in its try block.  An
\* error of the getTask call that ends createTask and updateTask has been
\* through getTask's own catch block first.
TypedCatch(class, method, e, nested) ==
  IF class = "JiraService"
  THEN IF nested THEN JiraTypedCatch(method, JiraTypedCatch("getTask", e))
       ELSE JiraTypedCatch(method, e)
  ELSE CalendarTypedCatch(method, e)

\* The value a tolerant method returns in place of a result.
EmptyValue(method) == IF method \in ListMethods THEN "[]" ELSE "{}"

\* The backend item after the calls that succeeded.
Applied(variant, be, args, done) ==
  LET edited == \E i \in 1..Len(done) : done[i] = "updateIssue"
      moved == \E i \in 1..Len(done) : done[i] = "transitionIssue"
      found == Find(variant, be.transitions, args.status)
  IN [be EXCEPT
        !.summary = IF edited /\ Truthy(args.summary) THEN args.summary ELSE @,
        !.status = IF moved /\ found # {}
                   THEN (CHOOSE t \in found : TRUE).to ELSE @]

\* One call of a method on an adapter: how it ends (kind: returned or
\* thrown), the backend calls it issued, and the backend item afterwards.
Run(svc, method, args, fault, be) ==
  LET plan == Plan(svc, method, args, be.transitions)
      pre == PreError(svc, method, args)
      at == FailsAt(plan, fault)
      calls == IF pre # NoThrown THEN <<>>
               ELSE IF at = 0 THEN plan ELSE SubSeq(plan, 1, at)
      done == IF pre # NoThrown \/ at = 0 THEN calls
              ELSE SubSeq(plan, 1, at - 1)
      raised == IF pre # NoThrown THEN pre
                ELSE IF at = 0 THEN NoThrown
                ELSE Thrown("Error", fault.statusCode)
      nested == /\ svc.class = "JiraService"
                /\ method \in {"createTask", "updateTask"}
                /\ IF pre # NoThrown THEN plan = <<"findIssue">>
                   ELSE at # 0 /\ plan[at] = "findIssue"
      after == Applied(svc.variant, be, args, done)
      ended(kind, value, error) ==
        [kind |-> kind, value |-> value, error |-> error, calls |-> calls,
         backend |-> after]
  IN IF svc.variant = "stub" THEN ended("returned", "dummy", NoThrown)
     ELSE IF svc.variant = "tolerant" /\ svc.client = "null"
     THEN [kind |-> "returned", value |-> EmptyValue(method),
           error |-> NoThrown, calls |-> <<>>, backend |-> be]
     ELSE IF raised = NoThrown THEN ended("returned", "data", NoThrown)
     ELSE IF svc.variant = "tolerant"
     THEN ended("returned", EmptyValue(method), NoThrown)
     ELSE IF svc.variant = "rethrow" THEN ended("thrown", "none", raised)
     ELSE ended("thrown", "none",
                TypedCatch(svc.class, method, raised, nested))

\* ------------------------------------------------------------ registry
Descriptor(kind, name) == [kind |-> kind, name |-> name]

\* Mutant: the last registration is missing.
RegisterAllButLast ==
  <<Descriptor("tool", "get_login_jira"),
    Descriptor("tool", "get_login_calendar"),
    Descriptor("tool", "get_login_notion"),
    Descriptor("resource", "jira-tasks"),
    Descriptor("tool", "create-jira-task"),
    Descriptor("tool", "update-jira-task"),
    Descriptor("resource", "calendar-events"),
    Descriptor("tool", "create-calendar-meeting"),
    Descriptor("resource", "notion-documents")>>

\* registerAllToolsAndResources(server): the registrations, in source order.
RegisterAllToolsAndResources ==
  <<Descriptor("tool", "get_login_jira"),
    Descriptor("tool", "get_login_calendar"),
    Descriptor("tool", "get_login_notion"),
    Descriptor("resource", "jira-tasks"),
    Descriptor("tool", "create-jira-task"),
    Descriptor("tool", "update-jira-task"),
    Descriptor("resource", "calendar-events"),
    Descriptor("tool", "create-calendar-meeting"),
    Descriptor("resource", "notion-documents"),
    Descriptor("tool", "create-notion-document")>>

\* ------------------------------------------------------------------ state
VARIABLES
  transports,          \* const transports = {}: session id -> transport
  sessionStore,        \* const sessionStore = {}: session id -> {integration -> bundle}
  transportSessionId,  \* transport.sessionId of every transport constructed
  openTransports,      \* transports initialized and not yet closed
  servers,             \* transport -> what was registered on its McpServer
  inflight,            \* requests handed to a transport and not yet answered
  logins,              \* history: session id -> integration -> input of its latest login
  last,                \* history: the request, handler step or close that led here
  service,             \* the adapter object a handler has constructed
  backend,             \* the item the Jira backend holds
  answer,              \* how the call on `service` ended, and what it did
  mcpServer            \* the MCPServer object of the stdio/HTTP entry point

routerVars ==
  <<transports, sessionStore, transportSessionId, openTransports, servers,
    inflight, logins, last>>

adapterVars == <<service, backend, answer>>

vars ==
  <<transports, sessionStore, transportSessionId, openTransports, servers,
    inflight, logins, last, service, backend, answer, mcpServer>>

\* No call made yet on the adapter.
NoAnswer ==
  [kind |-> "none", value |-> "none", error |-> NoThrown, calls |-> <<>>,
   method |-> "none", args |-> NoArgs, fault |-> NoFault,
   before |-> [summary |-> "old summary", status |-> "To Do",
               transitions |-> <<>>]]

NoEvent ==
  [ev |-> "none", header |-> Undefined, init |-> FALSE, outcome |-> "none",
   status |-> 0, body |-> NoBody, transport |-> Undefined, sid |-> Undefined,
   name |-> Undefined, id |-> Undefined, input |-> NoInput, creds |-> {},
   threw |-> FALSE, error |-> NoError, constructed |-> FALSE,
   ctorArg |-> {}, credentials |-> {}, method |-> Undefined,
   arg |-> Undefined, transportsBefore |-> EmptyObject,
   storeBefore |-> EmptyObject]

\* The record of a step of kind ev, with the two tables as the step found them.
Event(ev) ==
  [NoEvent EXCEPT !.ev = ev, !.transportsBefore = transports,
                  !.storeBefore = sessionStore]

\* The server after startup: no session, no credentials.
RouterInit ==
  /\ transports = EmptyObject
  /\ sessionStore = EmptyObject
  /\ transportSessionId = EmptyObject
  /\ openTransports = {}
  /\ servers = EmptyObject
  /\ inflight = {}
  /\ logins = EmptyObject
  /\ last = NoEvent

\* The entry point that builds an MCPServer has not run.
NoMCPServer ==
  [phase |-> "none", jira |-> "none", calendar |-> "none", notion |-> "none",
   jiraEnv |-> NoService.env, calendarEnv |-> NoService.env,
   notionEnv |-> NoService.env, clientThrows |-> FALSE,
   jiraService |-> {}, calendarService |-> {}, notionService |-> {},
   registered |-> <<>>, connected |-> <<>>, exitCode |-> 0]

Init ==
  /\ RouterInit
  /\ service = NoService
  /\ backend = NoAnswer.before
  /\ answer = NoAnswer
  /\ mcpServer = NoMCPServer

\* Identifiers handed out so far.
Issued == {transportSessionId[t] : t \in DOMAIN transportSessionId}

\* Mutant: the generator may repeat an identifier.
SessionIdGeneratorAny == UUIDs

\* sessionIdGenerator: () => randomUUID().  A version-4 UUID carries 122
\* random bits; the draw is modelled as any identifier not drawn before.
SessionIdGenerator == UUIDs \ Issued

\* Mutant: the new transport is never entered in the table.
OnSessionInitializedSkip(table, sid, transport) == table

\* onsessioninitialized: (sid) => { transports[sid] = transport; }
OnSessionInitialized(table, sid, transport) == SetKey(table, sid, transport)

\* transport.onclose, on the two tables:
\*   if (transport.sessionId) { delete transports[...]; delete sessionStore[...]; }
OnCloseTransports(table, sid) ==
  IF Truthy(sid) THEN DeleteKey(table, sid) ELSE table

\* Mutant: onclose leaves the credentials of the session behind.
OnCloseStoreKeep(store, sid) == store

\* Mutant: onclose drops the credentials of every session.
OnCloseStoreAll(store, sid) == EmptyObject

OnCloseStore(store, sid) ==
  IF Truthy(sid) THEN DeleteKey(store, sid) ELSE store

\* The (session, integration) pairs that hold a bundle.
StoredPairs(store) ==
  {p \in (DOMAIN store) \X Integrations : p[2] \in DOMAIN store[p[1]]}

\* The requests clients send: a login for a new (session, integration) pair
\* is sent only while fewer than MaxBundles pairs hold a bundle.
ClientSends(h, body) ==
  body.name \in LoginTools =>
    \/ <<h, IntegrationOf(body.name)>> \in StoredPairs(sessionStore)
    \/ Cardinality(StoredPairs(sessionStore)) < MaxBundles

\* --------------------------------------------------------------- actions
\* transport.close() as the SDK runs it on a DELETE or on the loss of the
\* connection: the transport stops and its onclose callback runs once.
CloseTransport(t) ==
  /\ transports' = OnCloseTransports(transports, transportSessionId[t])
  /\ sessionStore' = OnCloseStore(sessionStore, transportSessionId[t])
  /\ openTransports' = openTransports \ {t}
  /\ logins' = DeleteKey(logins, transportSessionId[t])
  /\ UNCHANGED <<transportSessionId, servers, inflight>>

\* The requests in flight whose handler or adapter call can still make a
\* step; a request whose adapter call never settles is not one of them.
Pending == {r \in inflight : r.phase # "stalled"}

\* transport.handleRequest(req, res, req.body) for a POST on a transport that
\* is already initialized: a tool call or a resource read is handed to the
\* server and waits for its handler; anything else is answered by the
\* protocol layer and touches no table.
HandlePost(t, h, body) ==
  /\ IF body.method \in {"tools/call", "resources/read"}
     THEN /\ Cardinality(Pending) < MaxPending
          /\ ClientSends(h, body)
          /\ inflight' = inflight \cup
               {[transport |-> t, name |-> body.name, input |-> body.input,
                 id |-> body.id, phase |-> "routed", service |-> Undefined,
                 ctorArg |-> {}, credentials |-> {}, method |-> Undefined,
                 arg |-> Undefined]}
     ELSE inflight' = inflight
  /\ last' = [Event("POST") EXCEPT !.header = h,
                !.init = (body.method = "initialize"), !.outcome = "routed",
                !.transport = t, !.name = body.name, !.id = body.id,
                !.input = body.input]
  /\ UNCHANGED <<transports, sessionStore, transportSessionId, openTransports,
                 servers, logins>>

\* The else-if branch of app.post: a new transport and server are built and
\* the transport handles the initialization request, which draws the session
\* id and runs onsessioninitialized.
CreateSession(h, body) ==
  \E sid \in SessionIdGenerator :
    LET t == TransportOf(Cardinality(DOMAIN transportSessionId) + 1) IN
    /\ Cardinality(DOMAIN transportSessionId) < MaxSessions
    /\ transportSessionId' = SetKey(transportSessionId, t, sid)
    /\ transports' = OnSessionInitialized(transports, sid, t)
    /\ openTransports' = openTransports \cup {t}
    /\ servers' = SetKey(servers, t, RegisterAllToolsAndResources)
    /\ last' = [Event("POST") EXCEPT !.header = h,
                  !.init = (body.method = "initialize"),
                  !.outcome = "created", !.transport = t, !.sid = sid]
    /\ UNCHANGED <<sessionStore, inflight, logins>>

\* Mutant: after the 400 the route goes on and hands the request to the
\* transport of some live session.
RejectPostFallsThrough(h, body) ==
  /\ last' = [Event("POST") EXCEPT !.header = h,
                !.init = (body.method = "initialize"), !.outcome = "rejected",
                !.status = 400, !.body = BadRequestEnvelope]
  /\ inflight' = inflight \cup
       {[transport |-> t, name |-> body.name, input |-> body.input,
         id |-> body.id, phase |-> "routed", service |-> Undefined,
         ctorArg |-> {}, credentials |-> {}, method |-> Undefined,
         arg |-> Undefined] :
          t \in {u \in openTransports :
                   /\ body.method \in {"tools/call", "resources/read"}
                   /\ Cardinality(Pending) < MaxPending}}
  /\ UNCHANGED <<transports, sessionStore, transportSessionId, openTransports,
                 servers, logins>>

\* res.status(400).json({...}); return
RejectPost(h, body) ==
  /\ last' = [Event("POST") EXCEPT !.header = h,
                !.init = (body.method = "initialize"), !.outcome = "rejected",
                !.status = 400, !.body = BadRequestEnvelope]
  /\ UNCHANGED <<transports, sessionStore, transportSessionId, openTransports,
                 servers, inflight, logins>>

\* `transport` is a member of Object.prototype: transport.handleRequest is
\* undefined and calling it throws a TypeError out of the async route; no
\* response is written by the route.
RouteThrows(verb, h, body) ==
  /\ last' = [Event(verb) EXCEPT !.header = h,
                !.init = (body.method = "initialize"), !.outcome = "TypeError"]
  /\ UNCHANGED <<transports, sessionStore, transportSessionId, openTransports,
                 servers, inflight, logins>>

\* app.post('/mcp', ...)
Post(h, body) ==
  LET entry == OwnOrInherited(transports, h) IN
  IF Truthy(h) /\ Truthy(entry)
  THEN IF entry \in TransportHandles
       THEN HandlePost(entry, h, body)
       ELSE RouteThrows("POST", h, body)
  ELSE IF ~Truthy(h) /\ IsInitializeRequest(body)
  THEN CreateSession(h, body)
  ELSE RejectPost(h, body)

\* Mutant: the rejection is sent with another status code.
RejectTextNotFound(verb, h) ==
  /\ last' = [Event(verb) EXCEPT !.header = h,
                !.outcome = "rejected", !.status = 404,
                !.body = InvalidSessionText]
  /\ UNCHANGED <<transports, sessionStore, transportSessionId, openTransports,
                 servers, inflight, logins>>

\* res.status(400).send('Invalid or missing session ID'); return
RejectText(verb, h) ==
  /\ last' = [Event(verb) EXCEPT !.header = h,
                !.outcome = "rejected", !.status = 400,
                !.body = InvalidSessionText]
  /\ UNCHANGED <<transports, sessionStore, transportSessionId, openTransports,
                 servers, inflight, logins>>

\* app.get('/mcp', ...): the transport opens the server-to-client stream.
Get(h) ==
  LET entry == OwnOrInherited(transports, h) IN
  IF ~Truthy(h) \/ ~Truthy(entry)
  THEN RejectText("GET", h)
  ELSE IF entry \in TransportHandles
  THEN /\ last' = [Event("GET") EXCEPT !.header = h,
                     !.outcome = "routed", !.transport = entry]
       /\ UNCHANGED <<transports, sessionStore, transportSessionId,
                      openTransports, servers, inflight, logins>>
  ELSE RouteThrows("GET", h, PingBody)

\* app.delete('/mcp', ...): the transport answers the DELETE by closing.
Delete(h) ==
  LET entry == OwnOrInherited(transports, h) IN
  IF ~Truthy(h) \/ ~Truthy(entry)
  THEN RejectText("DELETE", h)
  ELSE IF entry \in TransportHandles
  THEN /\ CloseTransport(entry)
       /\ last' = [Event("DELETE") EXCEPT !.header = h,
                     !.outcome = "routed", !.transport = entry,
                     !.sid = transportSessionId[entry]]
  ELSE RouteThrows("DELETE", h, PingBody)

\* The client's connection goes away and the transport closes.
Disconnect(t) ==
  /\ t \in openTransports
  /\ CloseTransport(t)
  /\ last' = [Event("disconnect") EXCEPT !.transport = t,
                !.sid = transportSessionId[t]]

\* Mutant: the login updates the stored bundle object in place, so an adapter
\* that was constructed from it sees the new values.
RunLoginInPlace(r) ==
  LET sid == transportSessionId[r.transport]
      integration == IntegrationOf(r.name)
      context == HandlerContext(r.name, sid)
  IN \E in \in r.input :
       /\ sessionStore' =
            StoreLogin(sessionStore, ContextSessionId(context), integration, in)
       /\ logins' = SetKey(logins, sid,
                           SetKey(EntryOrEmpty(logins, sid), integration, in))
       /\ inflight' =
            {IF q.transport = r.transport /\ q.phase # "routed"
                  /\ IntegrationOf(q.name) = integration
             THEN [q EXCEPT !.ctorArg = {NewBundle(integration, in)}]
             ELSE q : q \in inflight \ {r}}
       /\ last' = [Event("login") EXCEPT !.transport = r.transport,
                     !.sid = sid, !.name = r.name, !.input = r.input,
                     !.outcome = SessionToken(integration, in)]
       /\ UNCHANGED <<transports, transportSessionId, openTransports, servers>>

\* A login handler runs: it has no await, so the store update and the reply
\* are one step.
RunLogin(r) ==
  LET sid == transportSessionId[r.transport]
      integration == IntegrationOf(r.name)
      context == HandlerContext(r.name, sid)
  IN \E in \in r.input :
       /\ sessionStore' =
            StoreLogin(sessionStore, ContextSessionId(context), integration, in)
       /\ logins' = SetKey(logins, sid,
                           SetKey(EntryOrEmpty(logins, sid), integration, in))
       /\ inflight' = inflight \ {r}
       /\ last' = [Event("login") EXCEPT !.transport = r.transport,
                     !.sid = sid, !.name = r.name, !.input = r.input,
                     !.outcome = SessionToken(integration, in)]
       /\ UNCHANGED <<transports, transportSessionId, openTransports, servers>>

\* A resource or mutating-tool handler runs up to its first await.
RunGated(r) ==
  LET sid == transportSessionId[r.transport]
      start == HandlerStart(r.name, r.id, HandlerContext(r.name, sid),
                            sessionStore)
  IN /\ inflight' =
          IF start.threw THEN inflight \ {r}
          ELSE (inflight \ {r}) \cup
                 {[r EXCEPT !.phase = "awaiting", !.service = start.service,
                            !.ctorArg = start.ctorArg,
                            !.credentials = start.credentials,
                            !.method = start.method, !.arg = start.arg]}
     /\ last' = [Event("handler") EXCEPT !.transport = r.transport,
                   !.sid = sid, !.name = r.name, !.id = r.id,
                   !.input = r.input,
                   !.creds = start.creds, !.threw = start.threw,
                   !.error = start.error, !.constructed = start.constructed,
                   !.ctorArg = start.ctorArg,
                   !.credentials = start.credentials,
                   !.method = start.method, !.arg = start.arg,
                   !.outcome = IF start.threw THEN "thrown" ELSE "awaiting"]
     /\ UNCHANGED <<transports, sessionStore, transportSessionId,
                    openTransports, servers, logins>>

\* Mutant: the server invokes handlers one request at a time, so a routed
\* request waits until no earlier call is outstanding.
RunHandlerQueued(r) ==
  /\ r.phase = "routed"
  /\ inflight \ {r} = {}
  /\ IF r.name \in LoginTools THEN RunLogin(r) ELSE RunGated(r)

\* The server invokes the handler of a routed request.
RunHandler(r) ==
  /\ r.phase = "routed"
  /\ IF r.name \in LoginTools THEN RunLogin(r) ELSE RunGated(r)

\* Mutant: a failed adapter call closes the transport of its session.
AdapterReturnTearsDown(r, ok) ==
  /\ r.phase = "awaiting"
  /\ inflight' = inflight \ {r}
  /\ last' = [Event("return") EXCEPT !.transport = r.transport,
                !.sid = transportSessionId[r.transport], !.name = r.name,
                !.id = r.id, !.method = r.method,
                !.outcome = IF ok THEN "result" ELSE "error"]
  /\ IF ok
     THEN UNCHANGED <<transports, sessionStore, openTransports, logins>>
     ELSE /\ transports' =
               OnCloseTransports(transports, transportSessionId[r.transport])
          /\ sessionStore' =
               OnCloseStore(sessionStore, transportSessionId[r.transport])
          /\ openTransports' = openTransports \ {r.transport}
          /\ logins' = DeleteKey(logins, transportSessionId[r.transport])
  /\ UNCHANGED <<transportSessionId, servers>>

\* The awaited adapter call settles and the handler returns or rethrows.
AdapterReturn(r, ok) ==
  /\ r.phase = "awaiting"
  /\ inflight' = inflight \ {r}
  /\ last' = [Event("return") EXCEPT !.transport = r.transport,
                !.sid = transportSessionId[r.transport], !.name = r.name,
                !.id = r.id, !.method = r.method,
                !.outcome = IF ok THEN "result" ELSE "error"]
  /\ UNCHANGED <<transports, sessionStore, transportSessionId, openTransports,
                 servers, logins>>

Next ==
  \/ \E h \in HeaderValues, body \in Bodies :
       Post(h, body) /\ UNCHANGED <<adapterVars, mcpServer>>
  \/ \E h \in HeaderValues : Get(h) /\ UNCHANGED <<adapterVars, mcpServer>>
  \/ \E h \in HeaderValues : Delete(h) /\ UNCHANGED <<adapterVars, mcpServer>>
  \/ \E t \in TransportHandles : Disconnect(t) /\ UNCHANGED <<adapterVars, mcpServer>>
  \/ \E r \in inflight : RunHandler(r) /\ UNCHANGED <<adapterVars, mcpServer>>
  \/ \E r \in inflight, ok \in BOOLEAN :
       AdapterReturn(r, ok) /\ UNCHANGED <<adapterVars, mcpServer>>

Spec == Init /\ [][Next]_vars

\* --------------------------------------------- an adapter call that hangs
\* The promise a handler awaits (await jiraService.getTask(taskId), ...) never
\* settles: the handler stays suspended at its await for good.
Stall(r) ==
  /\ r.phase = "awaiting"
  /\ Cardinality(inflight \ Pending) < MaxStalled
  /\ inflight' = (inflight \ {r}) \cup {[r EXCEPT !.phase = "stalled"]}
  /\ last' = [Event("stall") EXCEPT !.transport = r.transport,
                !.sid = transportSessionId[r.transport], !.name = r.name,
                !.id = r.id, !.method = r.method, !.outcome = "pending"]
  /\ UNCHANGED <<transports, sessionStore, transportSessionId, openTransports,
                 servers, logins>>

\* The requests of the runs with a hanging call: session setup, a ping, the
\* Jira login with either input, and the two Jira reads.
StallBodies ==
  {InitializeBody, PingBody}
    \cup {b \in ToolBodies : b.name = "get_login_jira"}
    \cup {b \in ResourceBodies : b.name = "jira-tasks"}

StallNext ==
  \/ \E h \in HeaderValues, body \in StallBodies :
       Post(h, body) /\ UNCHANGED <<adapterVars, mcpServer>>
  \/ \E h \in HeaderValues : Delete(h) /\ UNCHANGED <<adapterVars, mcpServer>>
  \/ \E t \in TransportHandles : Disconnect(t) /\ UNCHANGED <<adapterVars, mcpServer>>
  \/ \E r \in inflight : RunHandler(r) /\ UNCHANGED <<adapterVars, mcpServer>>
  \/ \E r \in inflight, ok \in BOOLEAN :
       AdapterReturn(r, ok) /\ UNCHANGED <<adapterVars, mcpServer>>
  \/ \E r \in inflight : Stall(r) /\ UNCHANGED <<adapterVars, mcpServer>>

\* Node runs every callback that is ready: a routed request gets its handler
\* invoked, and an adapter call that is not the hanging one settles.
StallFairness ==
  /\ WF_vars(\E r \in inflight : RunHandler(r) /\ UNCHANGED <<adapterVars, mcpServer>>)
  /\ WF_vars(\E r \in inflight, ok \in BOOLEAN :
               AdapterReturn(r, ok) /\ UNCHANGED <<adapterVars, mcpServer>>)

StallSpec == Init /\ [][StallNext]_vars /\ StallFairness

\* ------------------------------------------------- the adapters by themselves
\* The environments a class reads: only CalendarService looks for a saved
\* token.
EnvironmentsOf(class) ==
  {env \in Environments : class = "CalendarService" \/ ~env.savedToken}

\* new Service(): a handler constructs its adapter afresh for every call.
Construct(class, variant, env) ==
  LET made == Constructor(class, variant, env) IN
  /\ service.class = "none" \/ answer.kind # "none"
  /\ service' = made.service
  /\ answer' =
       IF made.threw
       THEN [NoAnswer EXCEPT !.kind = "thrown", !.error = made.error,
                             !.method = "constructor", !.before = backend]
       ELSE [NoAnswer EXCEPT !.before = backend]
  /\ UNCHANGED backend

\* await service.method(args), with the backend failing as `fault` says.
Call(method, args, fault) ==
  LET ran == Run(service, method, args, fault, backend) IN
  /\ service.class # "none"
  /\ answer.kind = "none"
  /\ method \in Methods(service.class, service.variant)
  /\ args \in ArgsOf(method)
  /\ fault \in Faults(Plan(service, method, args, backend.transitions))
  /\ answer' = [kind |-> ran.kind, value |-> ran.value, error |-> ran.error,
                calls |-> ran.calls, method |-> method, args |-> args,
                fault |-> fault, before |-> backend]
  /\ backend' = ran.backend
  /\ UNCHANGED service

AllMethods ==
  UNION {Methods(c, v) : c \in ServiceClasses, v \in Variants}

AllFaults ==
  {NoFault} \cup
  [at : {"findIssue", "searchJira", "addNewIssue", "updateIssue",
         "listTransitions", "transitionIssue", "events.get", "events.list",
         "events.insert"},
   statusCode : StatusCodes]

AdapterInit ==
  /\ RouterInit
  /\ service = NoService
  /\ backend \in Backends
  /\ answer = [NoAnswer EXCEPT !.before = backend]
  /\ mcpServer = NoMCPServer

AdapterNext ==
  \/ \E class \in ServiceClasses, variant \in Variants :
       \E env \in EnvironmentsOf(class) :
         Construct(class, variant, env) /\ UNCHANGED <<routerVars, mcpServer>>
  \/ \E method \in AllMethods, fault \in AllFaults :
       \E args \in ArgsOf(method) :
         Call(method, args, fault) /\ UNCHANGED <<routerVars, mcpServer>>

AdapterSpec == AdapterInit /\ [][AdapterNext]_vars

\* ------------------------------------------- the stdio/HTTP entry point
\* The NotionService classes: services/notionService.js rethrows what the
\* Notion client constructor throws, the tolerant one leaves a null client
\* without an API key, the stub does nothing.
NotionVariants == {"rethrow", "tolerant", "stub"}

\* new NotionService(): the error it throws, or the object it leaves.
\* clientThrows: whether `new Client({ auth })` throws.
NotionConstructor(variant, env, clientThrows) ==
  LET made(client) ==
        [threw |-> FALSE, error |-> NoThrown,
         service |-> {[class |-> "NotionService", variant |-> variant,
                       client |-> client]}]
  IN CASE variant = "stub" -> made("unset")
       [] variant = "tolerant" ->
            IF env.credentials /\ clientThrows
            THEN [threw |-> TRUE, error |-> Thrown("Error", 0), service |-> {}]
            ELSE IF env.credentials THEN made("client")
            ELSE made("null")
       [] variant = "rethrow" ->
            IF clientThrows
            THEN [threw |-> TRUE, error |-> Thrown("Error", 0), service |-> {}]
            ELSE made("client")

\* try { this.x = new Service() } catch (error) { this.x = null }
TryConstruct(class, variant, env) ==
  LET made == Constructor(class, variant, env)
  IN IF made.threw THEN {} ELSE {made.service}

\* typeof this.notionService.getDoc === 'function' && typeof
\* this.notionService.searchDocs === 'function': every NotionService class
\* defines both methods.
NotionComplete(notion) == \A n \in notion : n.variant \in NotionVariants

\* registerResourcesAndTools(): the registrations, in source order.
RegisterResourcesAndTools(jira, calendar, notion) ==
  (IF jira # {}
   THEN <<Descriptor("resource", "jira-tasks"),
          Descriptor("tool", "create-jira-task"),
          Descriptor("tool", "update-jira-task")>>
   ELSE <<>>)
  \o (IF calendar # {}
      THEN <<Descriptor("resource", "calendar-events"),
             Descriptor("tool", "create-calendar-meeting")>>
      ELSE <<>>)
  \o (IF notion # {} /\ NotionComplete(notion)
      THEN <<Descriptor("resource", "notion-documents")>> ELSE <<>>)
  \o <<Descriptor("tool", "create-notion-document")>>

\* The process before main() runs: the service classes the imports resolve
\* to and the environment each constructor reads.
StartupStates ==
  {[NoMCPServer EXCEPT !.phase = "main", !.jira = jv, !.calendar = cv,
                       !.notion = nv, !.jiraEnv = je, !.calendarEnv = ce,
                       !.notionEnv = ne, !.clientThrows = ct] :
     jv \in Variants, cv \in Variants, nv \in NotionVariants,
     je \in EnvironmentsOf("JiraService"),
     ce \in EnvironmentsOf("CalendarService"),
     ne \in EnvironmentsOf("NotionService"), ct \in BOOLEAN}

\* const mcpServer = new MCPServer(): the three services are constructed and
\* the resources and tools registered; an error thrown by the constructor
\* rejects main().
NewMCPServer ==
  LET jira == TryConstruct("JiraService", mcpServer.jira, mcpServer.jiraEnv)
      calendar == TryConstruct("CalendarService", mcpServer.calendar,
                               mcpServer.calendarEnv)
      notion == NotionConstructor(mcpServer.notion, mcpServer.notionEnv,
                                  mcpServer.clientThrows)
  IN /\ mcpServer.phase = "main"
     /\ mcpServer' =
          IF notion.threw
          THEN [mcpServer EXCEPT !.phase = "rejected", !.jiraService = jira,
                                 !.calendarService = calendar]
          ELSE [mcpServer EXCEPT
                  !.phase = "constructed", !.jiraService = jira,
                  !.calendarService = calendar,
                  !.notionService = notion.service,
                  !.registered =
                    RegisterResourcesAndTools(jira, calendar, notion.service)]

\* await this.server.connect(stdio)
ConnectStdio ==
  /\ mcpServer.phase = "constructed"
  /\ mcpServer' = [mcpServer EXCEPT !.phase = "stdio",
                                    !.connected = <<"stdio">>]

\* await this.server.connect(http)
ConnectHttp ==
  /\ mcpServer.phase = "stdio"
  /\ mcpServer' = [mcpServer EXCEPT !.phase = "live",
                                    !.connected = <<"stdio", "http">>]

\* main().catch(error => { logger.error(...); process.exit(1); })
MainCatch ==
  /\ mcpServer.phase = "rejected"
  /\ mcpServer' = [mcpServer EXCEPT !.phase = "exited", !.exitCode = 1]

StartupInit ==
  /\ RouterInit
  /\ service = NoService
  /\ backend = NoAnswer.before
  /\ answer = NoAnswer
  /\ mcpServer \in StartupStates

StartupNext ==
  \/ NewMCPServer /\ UNCHANGED <<routerVars, adapterVars>>
  \/ ConnectStdio /\ UNCHANGED <<routerVars, adapterVars>>
  \/ ConnectHttp /\ UNCHANGED <<routerVars, adapterVars>>
  \/ MainCatch /\ UNCHANGED <<routerVars, adapterVars>>

StartupSpec == StartupInit /\ [][StartupNext]_vars

\* ---------------------------------------------------------------- claims
HttpVerbs == {"POST", "GET", "DELETE"}

\* The integration the handler of the last step belongs to.
LastIntegration == IntegrationOf(last.name)

\* The last step was a request naming a session that was not in the table.
LastNamedUnknownSession ==
  /\ last.ev \in HttpVerbs
  /\ Truthy(last.header)
  /\ last.header \notin DOMAIN last.transportsBefore

\* The last step left both tables as it found them.
LastLeftTablesUnchanged ==
  /\ transports = last.transportsBefore
  /\ sessionStore = last.storeBefore

\* The body is the JSON-RPC error envelope {jsonrpc, error: {code, message}, id: null}.
IsErrorEnvelope(body) ==
  /\ DOMAIN body = {"jsonrpc", "error", "id"}
  /\ body.jsonrpc = "2.0"
  /\ DOMAIN body.error = {"code", "message"}
  /\ body.id = "null"

\* C1: a resource read or a create/update tool run on a live session that
\* holds no bundle for the handler's integration throws that integration's
\* LoginRequired error, and no adapter is constructed or called for it.
C1_LoginRequiredBeforeLogin ==
  (/\ last.ev = "handler"
   /\ last.transport \in openTransports
   /\ LastIntegration \notin DOMAIN EntryOrEmpty(sessionStore, last.sid))
  => /\ last.threw
     /\ last.error = LoginRequiredError(LastIntegration)
     /\ ~last.constructed
     /\ last.method = Undefined
     /\ \A r \in inflight :
          ~(r.phase = "awaiting" /\ r.transport = last.transport
            /\ r.service = LastIntegration)

\* A tool of an integration was refused on a live session that is logged in
\* to another integration only.
C1_Witness ==
  /\ last.ev = "handler"
  /\ last.name = "update-jira-task"
  /\ last.transport \in openTransports
  /\ DOMAIN EntryOrEmpty(sessionStore, last.sid) = {"calendar"}
  /\ last.threw

\* C2: the bundle a handler running on a session looks up is the one the
\* latest login on that same session stored, whatever other sessions did.
C2_SessionIsolation ==
  last.ev = "handler" =>
    \A c \in last.creds :
      /\ LastIntegration \in DOMAIN EntryOrEmpty(logins, last.sid)
      /\ c = NewBundle(LastIntegration, logins[last.sid][LastIntegration])

\* A handler found its session's bundle while another session was logged in
\* to the same integration with other credentials.
C2_Witness ==
  /\ last.ev = "handler"
  /\ last.creds # {}
  /\ \E other \in DOMAIN logins \ {last.sid} :
       /\ LastIntegration \in DOMAIN logins[other]
       /\ logins[other][LastIntegration] # logins[last.sid][LastIntegration]

\* C3: a POST, GET or DELETE naming a session that is not in the table is
\* answered 400 and leaves the session table and the credential store alone.
C3_UnknownSessionRejected ==
  LastNamedUnknownSession =>
    /\ last.outcome = "rejected"
    /\ last.status = 400
    /\ LastLeftTablesUnchanged

\* C4: a POST without a session id whose body is no initialization request
\* is answered 400 with the error envelope and changes neither table; every
\* request handed to a transport names a session initialized before it.
C4_NonInitWithoutSessionRejected ==
  /\ (last.ev = "POST" /\ ~Truthy(last.header) /\ ~last.init)
     => /\ last.outcome = "rejected"
        /\ last.status = 400
        /\ IsErrorEnvelope(last.body)
        /\ LastLeftTablesUnchanged
  /\ last.outcome = "routed"
     => /\ last.header \in Issued
        /\ last.header \in DOMAIN last.transportsBefore

\* A ping without a session id was rejected while a session was live.
C4_Witness ==
  /\ last.ev = "POST" /\ ~Truthy(last.header) /\ ~last.init
  /\ last.outcome = "rejected"
  /\ openTransports # {}

\* C5: an initialization POST without a session id adds exactly one entry
\* to the session table, under an identifier no earlier session had, bound
\* to a transport no entry held before; the new session holds no bundle;
\* and a request naming a live session goes to the transport it was
\* created with.
C5_InitCreatesOneSession ==
  /\ (last.ev = "POST" /\ ~Truthy(last.header) /\ last.init)
     => /\ last.outcome = "created"
        /\ last.sid \in UUIDs \ DOMAIN last.transportsBefore
        /\ \A t \in DOMAIN transportSessionId \ {last.transport} :
             transportSessionId[t] # last.sid
        /\ DOMAIN transports = DOMAIN last.transportsBefore \cup {last.sid}
        /\ \A k \in DOMAIN last.transportsBefore :
             /\ transports[k] = last.transportsBefore[k]
             /\ transports[k] # last.transport
        /\ transports[last.sid] = last.transport
        /\ transportSessionId[last.transport] = last.sid
        /\ last.sid \notin DOMAIN sessionStore
        /\ sessionStore = last.storeBefore
  /\ \A t \in openTransports :
       /\ transportSessionId[t] \in DOMAIN transports
       /\ transports[transportSessionId[t]] = t
  /\ last.outcome = "routed"
     => /\ transportSessionId[last.transport] = last.header
        /\ last.transportsBefore[last.header] = last.transport

\* A second session was created while the first was live and logged in.
C5_Witness ==
  /\ last.ev = "POST" /\ last.outcome = "created"
  /\ Cardinality(openTransports) = 2
  /\ sessionStore # EmptyObject

\* The last step closed a transport: a DELETE handed to it, or a disconnect.
LastClosedTransport ==
  \/ last.ev = "disconnect"
  \/ last.ev = "DELETE" /\ last.outcome = "routed"

\* C6: closing the transport of a live session removes the session's table
\* entry and all its bundles; the identifier of a closed session never
\* enters the table again, and every later request naming it is rejected.
C6_CloseIsTerminal ==
  /\ LastClosedTransport
     => /\ last.sid \in DOMAIN last.transportsBefore
        /\ last.sid \notin DOMAIN transports
        /\ last.sid \notin DOMAIN sessionStore
        /\ last.transport \notin openTransports
  /\ \A t \in DOMAIN transportSessionId \ openTransports :
       transportSessionId[t] \notin DOMAIN transports
  /\ (LastNamedUnknownSession /\ last.header \in Issued)
     => /\ last.outcome = "rejected"
        /\ last.status = 400
        /\ LastLeftTablesUnchanged

\* A DELETE closed a session that held credentials.
C6_Witness ==
  /\ last.ev = "DELETE" /\ last.outcome = "routed"
  /\ last.sid \in DOMAIN last.storeBefore
  /\ last.sid \notin DOMAIN sessionStore

\* C7: the identifiers of all sessions ever created, live or closed, are
\* pairwise distinct, and each live session is the one the table holds
\* under its identifier.
C7_IdentifiersNeverReused ==
  /\ \A t1, t2 \in DOMAIN transportSessionId :
       t1 # t2 => transportSessionId[t1] # transportSessionId[t2]
  /\ \A t \in openTransports :
       OwnOrInherited(transports, transportSessionId[t]) = t

\* A session was created after an earlier one had been closed.
C7_Witness ==
  /\ TransportOf(1) \in DOMAIN transportSessionId \ openTransports
  /\ TransportOf(2) \in openTransports

\* C8: a live session holds a bundle for an integration exactly when a
\* login for that integration has completed on it.
C8_BundleIffLoggedIn ==
  \A t \in openTransports :
    \A i \in Integrations :
      (CredsLookup(sessionStore, transportSessionId[t], i) # {})
        <=> (i \in DOMAIN EntryOrEmpty(logins, transportSessionId[t]))

\* A second login completed on a live session that was already logged in
\* to another integration.
C8_Witness ==
  /\ last.ev = "login"
  /\ last.transport \in openTransports
  /\ Cardinality(DOMAIN EntryOrEmpty(sessionStore, last.sid)) = 2
  /\ Cardinality(DOMAIN EntryOrEmpty(last.storeBefore, last.sid)) = 1

\* The bundle a login with this input has to leave behind: the input's
\* fields and the token derived from them, nothing else.
IsBundleOf(bundle, integration, in) ==
  CASE integration = "jira" ->
         /\ DOMAIN bundle = {"username", "apiToken", "host", "session"}
         /\ bundle.username = in.username
         /\ bundle.apiToken = in.apiToken
         /\ bundle.host = in.host
    [] integration = "calendar" ->
         /\ DOMAIN bundle = {"clientId", "clientSecret", "redirectUri",
                             "refreshToken", "session"}
         /\ bundle.clientId = in.clientId
         /\ bundle.clientSecret = in.clientSecret
         /\ bundle.redirectUri = in.redirectUri
         /\ bundle.refreshToken = in.refreshToken
    [] integration = "notion" ->
         /\ DOMAIN bundle = {"apiKey", "session"}
         /\ bundle.apiKey = in.apiKey

\* C9: after a login the bundle stored for the session and integration is
\* the one made from that login's input alone, whatever was stored before.
C9_LoginOverwrites ==
  last.ev = "login" =>
    \A in \in last.input :
      /\ CredsLookup(sessionStore, last.sid, LastIntegration) # {}
      /\ \A b \in CredsLookup(sessionStore, last.sid, LastIntegration) :
           /\ IsBundleOf(b, LastIntegration, in)
           /\ b.session = last.outcome

\* A Calendar login without refreshToken replaced a bundle that had one.
C9_Witness ==
  /\ last.ev = "login"
  /\ last.name = "get_login_calendar"
  /\ \E in \in last.input : in.refreshToken = Undefined
  /\ \E old \in CredsLookup(last.storeBefore, last.sid, "calendar") :
       old.refreshToken # Undefined

LastStoredBundle == CredsLookup(last.storeBefore, last.sid, LastIntegration)

\* C11: when a resource read or a create/update tool passes the login gate,
\* the adapter is constructed from the bundle stored for its session and
\* integration, and the credentials the adapter holds for its backend calls
\* are that bundle.
C11_AdapterHoldsBundle ==
  (last.ev = "handler" /\ ~last.threw)
  => /\ last.constructed
     /\ last.ctorArg = LastStoredBundle
     /\ last.credentials # {}
     /\ last.credentials = LastStoredBundle

\* The single-item and the collection operation of each resource template.
SingleItemOperation(name) ==
  CASE name = "jira-tasks" -> "getTask"
    [] name = "calendar-events" -> "getEvent"
    [] name = "notion-documents" -> "getDoc"

CollectionOperation(name) ==
  CASE name = "jira-tasks" -> "getTasks"
    [] name = "calendar-events" -> "getEvents"
    [] name = "notion-documents" -> "searchDocs"

\* C12: a resource read on a session that holds the integration's bundle
\* passes the gate and issues one adapter call: the single-item operation
\* with the given id when the URI carries an id, the collection operation
\* without an argument when it carries none.
C12_ResourceReadRouting ==
  (/\ last.ev = "handler"
   /\ last.name \in ResourceNames
   /\ LastStoredBundle # {})
  => /\ ~last.threw
     /\ IF Truthy(last.id)
        THEN /\ last.method = SingleItemOperation(last.name)
             /\ last.arg = last.id
        ELSE /\ last.method = CollectionOperation(last.name)
             /\ last.arg = Undefined
     /\ \A r \in inflight :
          (r.transport = last.transport /\ r.phase = "awaiting")
          => (r.method = last.method /\ r.arg = last.arg)

\* A read of notion://documents without an id listed the documents.
C12_Witness ==
  /\ last.ev = "handler"
  /\ last.name = "notion-documents"
  /\ ~Truthy(last.id)
  /\ last.method = "searchDocs"
  /\ \E r \in inflight : r.phase = "awaiting" /\ r.method = "searchDocs"

\* C13: on a live session on which a login for an integration has
\* completed, every resource read and create/update tool of that
\* integration passes the login gate.
C13_GatePassesAfterLogin ==
  (/\ last.ev = "handler"
   /\ last.transport \in openTransports
   /\ LastIntegration \in DOMAIN EntryOrEmpty(logins, last.sid))
  => ~last.threw

\* The login tool of an integration, and the way its messages name it.
LoginToolOf(integration) == "get_login_" \o integration

DisplayName(integration) ==
  CASE integration = "jira" -> "Jira"
    [] integration = "calendar" -> "Calendar"
    [] integration = "notion" -> "Notion"

\* C14: the error a handler throws at the login gate is the one every
\* handler of its integration throws, no handler of another integration
\* throws it or shares its code or message, and its message names the
\* integration's own login tool.
C14_LoginRequiredFixed ==
  (last.ev = "handler" /\ last.threw)
  => /\ \A n \in GatedNames :
          IF IntegrationOf(n) = LastIntegration
          THEN HandlerLoginError(n) = last.error
          ELSE /\ HandlerLoginError(n).code # last.error.code
               /\ HandlerLoginError(n).message # last.error.message
     /\ LoginToolOf(LastIntegration) \in LoginTools
     /\ IntegrationOf(LoginToolOf(LastIntegration)) = LastIntegration
     /\ last.error.message =
          "Please login to " \o DisplayName(LastIntegration)
          \o " first using the " \o LoginToolOf(LastIntegration) \o " tool."

\* A Notion tool was refused on a session logged in to Jira.
C14_Witness ==
  /\ last.ev = "handler"
  /\ last.threw
  /\ last.name = "create-notion-document"
  /\ "jira" \in DOMAIN EntryOrEmpty(sessionStore, last.sid)

\* The requested status names no transition of the list and no status a
\* transition of the list leads to, whatever the letter case.
MatchesNoTransition(status, list) ==
  \A i \in 1..Len(list) :
    /\ ToLowerCase(list[i].name) # ToLowerCase(status)
    /\ ToLowerCase(list[i].to) # ToLowerCase(status)

\* The last call was updateTask on an adapter connected to its backend, it
\* asked for a status that matches no transition, and no backend call failed.
UpdateWithUnmatchedStatus ==
  /\ answer.method = "updateTask"
  /\ service.variant # "stub"
  /\ service.client = "client"
  /\ Truthy(answer.args.status)
  /\ MatchesNoTransition(answer.args.status, answer.before.transitions)
  /\ answer.fault = NoFault

C16_InvalidMeetingRejected ==
  (/\ last.ev = "handler"
   /\ last.name = "create-calendar-meeting"
   /\ LastStoredBundle # {}
   /\ \E in \in last.input : in.endDateTime <= in.startDateTime)
  => /\ last.threw
     /\ ~last.constructed
     /\ last.method = Undefined

\* C17: an adapter call that fails leaves the session table and the
\* credential store as they were; the session it ran on, if it was live,
\* is still live and bound to the same transport.
C17_AdapterFailureFrame ==
  (last.ev = "return" /\ last.outcome = "error")
  => /\ LastLeftTablesUnchanged
     /\ last.sid \in DOMAIN last.transportsBefore
        => /\ last.transport \in openTransports
           /\ OwnOrInherited(transports, last.sid) = last.transport
           /\ EntryOrEmpty(sessionStore, last.sid)
                = EntryOrEmpty(last.storeBefore, last.sid)

\* An adapter call failed on a logged-in session while another session was
\* live.
C17_Witness ==
  /\ last.ev = "return"
  /\ last.outcome = "error"
  /\ last.sid \in DOMAIN sessionStore
  /\ Cardinality(DOMAIN transports) = 2

\* The last call issued a backend call and the backend failed it.
BackendCallFailed ==
  /\ answer.fault # NoFault
  /\ Len(answer.calls) > 0
  /\ answer.calls[Len(answer.calls)] = answer.fault.at

\* The error classes of utils/errors.js.
TaxonomyErrors ==
  {"AuthenticationError", "NotFoundError", "ValidationError", "CustomError"}

\* C18: a method whose backend call fails ends by throwing an error of one
\* of the classes of utils/errors.js.
C18_FailureIsTypedError ==
  BackendCallFailed
  => /\ answer.kind = "thrown"
     /\ answer.error.type \in TaxonomyErrors

\* The adapter was constructed by a class that reads NODE_ENV, with
\* NODE_ENV=development and without the integration's credentials.
DevelopmentWithoutCredentials ==
  /\ service.variant \in {"typed", "none"}
  /\ service.env.NODE_ENV = "development"
  /\ ~service.env.credentials

\* C19: with NODE_ENV=development and no credentials the constructor throws
\* nothing, and every method called on the adapter it leaves returns a
\* value and throws nothing.
C19_DevelopmentModeDegrades ==
  DevelopmentWithoutCredentials
  => /\ answer.method = "constructor" => answer.kind # "thrown"
     /\ answer.method \notin {"none", "constructor"}
        => /\ answer.kind = "returned"
           /\ answer.error = NoThrown

\* The names registered on a server, by kind.
Registered(t, kind) ==
  {servers[t][i].name : i \in {j \in 1..Len(servers[t]) : servers[t][j].kind = kind}}

\* C20: the server of every session ever created holds ten registrations
\* with ten different names: the three login tools, the four create/update
\* tools and the three resource templates; so all servers hold the same
\* catalog, in every state.
C20_FixedCatalog ==
  /\ DOMAIN servers = DOMAIN transportSessionId
  /\ \A t \in DOMAIN servers :
       /\ Len(servers[t]) = 10
       /\ \A i, j \in 1..Len(servers[t]) :
            i # j => servers[t][i].name # servers[t][j].name
       /\ Registered(t, "tool") = LoginTools \cup MutatingTools
       /\ Registered(t, "resource") = ResourceNames
       /\ Cardinality(LoginTools) = 3
       /\ Cardinality(ResourceNames) = 3
       /\ Cardinality(MutatingTools) = 4
       /\ \A u \in DOMAIN servers : servers[u] = servers[t]

\* A second session was created after the first had been closed.
C20_Witness ==
  /\ Cardinality(DOMAIN servers) = 2
  /\ Cardinality(openTransports) = 1
  /\ last.ev = "POST" /\ last.outcome = "created"


\* ------------------------------------------------------------ C21 .. C30
\* The adapter calls that never return.
HangingCalls == inflight \ Pending

\* A tool call or resource read sent on the session of transport t is handed
\* to the transport and joins the requests in flight.
Routable(t) ==
  ENABLED (\E body \in StallBodies \ {InitializeBody, PingBody} :
             /\ Post(transportSessionId[t], body)
             /\ last'.outcome = "routed"
             /\ inflight' # inflight)

\* An initialization request without a session id creates a session.
Creatable ==
  ENABLED (Post(Undefined, InitializeBody) /\ last'.outcome = "created")

\* The session of transport t can be torn down by a DELETE and by the loss
\* of its connection.
Closable(t) ==
  /\ ENABLED (Delete(transportSessionId[t]) /\ t \notin openTransports')
  /\ ENABLED Disconnect(t)

\* C21: while one adapter call hangs, requests on every live session are
\* still routed, sessions can still be created and torn down, and every
\* other request in flight makes progress: a routed request gets its handler
\* run and an awaited adapter call returns unless it hangs as well.
C21_OnlyTheHangingRequestPends ==
  /\ [](HangingCalls # {} =>
          /\ \A t \in openTransports :
               /\ Pending = {} => Routable(t)
               /\ Closable(t)
          /\ Cardinality(DOMAIN transportSessionId) < MaxSessions => Creatable)
  /\ (HangingCalls # {} /\ \E r \in Pending : r.phase = "routed")
       ~> (last.ev \in {"login", "handler"})
  /\ (HangingCalls # {} /\ \E r \in Pending : r.phase = "awaiting")
       ~> (last.ev \in {"return", "stall"})

\* A request of another session was answered by its adapter while the call
\* of the first session hangs.
C21_Witness ==
  \E q \in HangingCalls :
    /\ last.ev = "return"
    /\ last.transport # q.transport
    /\ last.transport \in openTransports


\* C22: every session identifier with an entry in the credential store has
\* an entry in the live-session table.
C22_StoreWithinLiveSessions == DOMAIN sessionStore \subseteq DOMAIN transports


\* C23: a non-login handler constructs its adapter from the bundle that is
\* in the store at the step of its lookup, and a login that runs while the
\* call is in progress leaves the started call and its bundle as they are.
C23_StartedCallKeepsBundle ==
  /\ [](last.ev = "handler" /\ last.constructed =>
          last.ctorArg =
            CredsLookup(last.storeBefore,
                        ContextSessionId(HandlerContext(last.name, last.sid)),
                        IntegrationOf(last.name)))
  /\ [][last'.ev = "login" =>
          \A r \in inflight : r.phase # "routed" => r \in inflight']_vars

\* A login replaced the bundle of a session while a call of that session on
\* the same integration was in progress: the call holds the earlier bundle.
C23_Witness ==
  /\ last.ev = "login"
  /\ \E r \in inflight :
       /\ r.phase # "routed"
       /\ r.transport = last.transport
       /\ IntegrationOf(r.name) = IntegrationOf(last.name)
       /\ r.ctorArg # {}
       /\ r.ctorArg #
            CredsLookup(sessionStore, last.sid, IntegrationOf(last.name))


\* C27: a request answered with a protocol error (missing, unknown or stale
\* session id, or a first message that is not an initialization) is answered
\* by the route itself: no request joins the requests in flight, so no
\* handler runs for it, no bundle is looked up, no adapter is constructed or
\* called, and both tables stay as they were.
C27_RejectedRunsNothing ==
  [][last'.outcome = "rejected" =>
       /\ last'.ev \in HttpVerbs
       /\ inflight' = inflight
       /\ sessionStore' = sessionStore
       /\ transports' = transports
       /\ last'.creds = {}
       /\ ~last'.constructed
       /\ last'.method = Undefined]_vars

\* A POST naming the identifier of a closed session was rejected while a
\* request was in flight.
C27_Witness ==
  /\ last.ev = "POST"
  /\ last.outcome = "rejected"
  /\ last.header \in Issued
  /\ inflight # {}

\* C28: a login for integration I on session S changes only the bundle of
\* (S, I): every other bundle of S, every bundle of every other session and
\* the live-session table are as before.
C28_LoginFrame ==
  last.ev = "login" =>
    /\ transports = last.transportsBefore
    /\ DOMAIN sessionStore = DOMAIN last.storeBefore \cup {last.sid}
    /\ \A sid \in DOMAIN sessionStore, i \in Integrations :
         <<sid, i>> # <<last.sid, LastIntegration>> =>
           CredsLookup(sessionStore, sid, i) =
             CredsLookup(last.storeBefore, sid, i)

\* A login on a live session that already held a bundle of another
\* integration.
C28_Witness ==
  /\ last.ev = "login"
  /\ last.sid \in DOMAIN transports
  /\ \E i \in Integrations \ {LastIntegration} :
       CredsLookup(last.storeBefore, last.sid, i) # {}

\* C29: closing the transport of one session leaves every other live
\* session as it was: its table entry and bound transport, its bundles, and
\* the route still finds its open transport.
C29_CloseFrame ==
  LastClosedTransport =>
    \A sid \in DOMAIN last.transportsBefore \ {last.sid} :
      /\ sid \in DOMAIN transports
      /\ transports[sid] = last.transportsBefore[sid]
      /\ OwnOrInherited(transports, sid) \in openTransports
      /\ \A i \in Integrations :
           CredsLookup(sessionStore, sid, i) =
             CredsLookup(last.storeBefore, sid, i)

\* One of two live sessions was closed while the other held a bundle.
C29_Witness ==
  /\ LastClosedTransport
  /\ \E sid \in DOMAIN transports :
       /\ sid # last.sid
       /\ sid \in DOMAIN sessionStore
       /\ sessionStore[sid] # EmptyObject


\* The positions of a backend call in the calls the last method issued.
PositionsOf(call) ==
  {i \in 1..Len(answer.calls) : answer.calls[i] = call}

\* The last call was updateTask on an adapter connected to its backend.
UpdateOnBackend ==
  /\ answer.method = "updateTask"
  /\ service.variant # "stub"
  /\ service.client = "client"

\* C24: updateTask issues its backend calls in a fixed order: the field
\* edit, if any, is the first call; the transitions are listed at most once,
\* only when a status was asked for and after the field edit; at most one
\* transition is applied, right after the listing; when the field edit
\* fails, no transition is listed or applied and the status stays.
C24_UpdateCallOrder ==
  UpdateOnBackend =>
    /\ PositionsOf("updateIssue") \subseteq {1}
    /\ Truthy(answer.args.summary) => answer.calls[1] = "updateIssue"
    /\ Cardinality(PositionsOf("listTransitions")) <= 1
    /\ PositionsOf("listTransitions") # {} =>
         /\ Truthy(answer.args.status)
         /\ \A i \in PositionsOf("updateIssue"),
               j \in PositionsOf("listTransitions") : i < j
    /\ Cardinality(PositionsOf("transitionIssue")) <= 1
    /\ \A j \in PositionsOf("transitionIssue") :
         j > 1 /\ answer.calls[j - 1] = "listTransitions"
    /\ answer.fault.at = "updateIssue" =>
         /\ answer.calls = <<"updateIssue">>
         /\ backend = answer.before

\* An update with a new summary and a status one transition matches issued
\* the edit, the listing and the transition, in that order.
C24_Witness ==
  /\ UpdateOnBackend
  /\ Truthy(answer.args.summary)
  /\ Len(answer.calls) >= 3
  /\ SubSeq(answer.calls, 1, 3) =
       <<"updateIssue", "listTransitions", "transitionIssue">>
  /\ backend.status # answer.before.status

\* The transitions of the item whose target status is the requested one in
\* some letter case.
TargetsRequested ==
  {i \in 1..Len(answer.before.transitions) :
     ToLowerCase(answer.before.transitions[i].to) =
       ToLowerCase(answer.args.status)}

\* C25: when updateTask is given a status and no backend call fails, a
\* transition is applied exactly when some transition leads to a status
\* equal to the requested one compared case-insensitively, and the item is
\* then in that status.
C25_TransitionByTarget ==
  (UpdateOnBackend /\ Truthy(answer.args.status) /\ answer.fault = NoFault)
  => IF TargetsRequested = {}
     THEN /\ PositionsOf("transitionIssue") = {}
          /\ backend.status = answer.before.status
     ELSE /\ PositionsOf("transitionIssue") # {}
          /\ ToLowerCase(backend.status) = ToLowerCase(answer.args.status)

\* C26: a method of a typed-error adapter whose backend call is answered
\* with 401 ends by throwing an AuthenticationError with status 401.
C26_UnauthorizedIsAuthenticationError ==
  (/\ service.variant = "typed"
   /\ BackendCallFailed
   /\ answer.fault.statusCode = 401)
  => /\ answer.kind = "thrown"
     /\ answer.error = AuthenticationError


\* The service of an integration as the MCPServer holds it.
ServiceOf(integration) ==
  CASE integration = "jira" -> mcpServer.jiraService
    [] integration = "calendar" -> mcpServer.calendarService
    [] integration = "notion" -> mcpServer.notionService

\* C30: in the stdio/HTTP entry point a service that fails to initialise
\* never makes startup fail, and every registered tool or resource belongs
\* to an integration whose service is available.
C30_StartupSurvivesServiceFailure ==
  /\ mcpServer.phase \notin {"rejected", "exited"}
  /\ \A i \in 1..Len(mcpServer.registered) :
       ServiceOf(IntegrationOf(mcpServer.registered[i].name)) # {}

====
